---------------------------- MODULE Spec2Model ----------------------------
(***************************************************************************)
(* SysAid -> Azure DevOps synchronisation (main.py, ado_api.py) together   *)
(* with the PII/PHI redaction of sensitive_data_detector.py.               *)
(*                                                                         *)
(* Texts are sequences of one-character strings.  The remote Azure DevOps  *)
(* project is a sequence of work items; the id of a work item is its index.*)
(***************************************************************************)
EXTENDS Integers, Sequences, FiniteSets, TLC

(***************************************************************************)
(* Bounds of the model.                                                    *)
(***************************************************************************)
NumTickets == 2
MaxProcessed == 3
MaxTime == 2
MaxStamp == 1
MaxFindings == 2

(***************************************************************************)
(* Characters and character classes of Python's re module (ASCII part).    *)
(***************************************************************************)
UpperSeq ==
  <<"A","B","C","D","E","F","G","H","I","J","K","L","M",
    "N","O","P","Q","R","S","T","U","V","W","X","Y","Z">>

LowerSeq ==
  <<"a","b","c","d","e","f","g","h","i","j","k","l","m",
    "n","o","p","q","r","s","t","u","v","w","x","y","z">>

Digits == {"0","1","2","3","4","5","6","7","8","9"}

Range(s) == {s[i] : i \in DOMAIN s}

IsUpper(c) == c \in Range(UpperSeq)

IsLetter(c) == c \in Range(UpperSeq) \cup Range(LowerSeq)

IsDigit(c) == c \in Digits

IsSpace(c) == c \in {" ", "\t", "\n"}

IsWord(c) == IsLetter(c) \/ IsDigit(c) \/ c = "_"

Lower(c) ==
  IF IsUpper(c)
  THEN LowerSeq[CHOOSE i \in DOMAIN UpperSeq : UpperSeq[i] = c]
  ELSE c

\* t[i] is a word character (FALSE outside the text)
WordAt(t, i) == i >= 1 /\ i <= Len(t) /\ IsWord(t[i])

\* \b between t[i-1] and t[i]
Boundary(t, i) == WordAt(t, i - 1) # WordAt(t, i)

\* the first position >= i that does not hold a space (Len(t)+1 if none)
RECURSIVE SkipSpaces(_, _)
SkipSpaces(t, i) ==
  IF i <= Len(t) /\ IsSpace(t[i]) THEN SkipSpaces(t, i + 1) ELSE i

\* the first position >= i that holds a space (Len(t)+1 if none): end of \S+
RECURSIVE RunEnd(_, _)
RunEnd(t, i) ==
  IF i <= Len(t) /\ ~IsSpace(t[i]) THEN RunEnd(t, i + 1) ELSE i

\* the first position >= i that does not hold a digit: end of \d+
RECURSIVE DigitsEnd(_, _)
DigitsEnd(t, i) ==
  IF i <= Len(t) /\ IsDigit(t[i]) THEN DigitsEnd(t, i + 1) ELSE i

\* the literal w occurs in t at position i, compared case-insensitively
MatchesAtCI(t, i, w) ==
  /\ i >= 1
  /\ i + Len(w) - 1 <= Len(t)
  /\ \A k \in 1..Len(w) : Lower(t[i + k - 1]) = Lower(w[k])

AllDigits(t, i, n) ==
  /\ i + n - 1 <= Len(t)
  /\ \A k \in 0..(n - 1) : IsDigit(t[i + k])

CharAt(t, i, c) == i <= Len(t) /\ t[i] = c

(***************************************************************************)
(* RuleRegistry: the rules of SensitiveDataDetector.patterns that the      *)
(* sample texts can trigger, in registry order.  RuleMatch(label, t, i) is *)
(* the position just after the match of the rule's pattern that starts at  *)
(* position i of t, and 0 when the pattern does not match there.           *)
(***************************************************************************)
patterns == <<"SSN", "Login Credentials", "Prescription", "Member ID">>

\* "SSN": \b\d{3}-\d{2}-\d{4}\b
SSNMatch(t, i) ==
  IF /\ Boundary(t, i)
     /\ AllDigits(t, i, 3) /\ CharAt(t, i + 3, "-")
     /\ AllDigits(t, i + 4, 2) /\ CharAt(t, i + 6, "-")
     /\ AllDigits(t, i + 7, 4)
     /\ Boundary(t, i + 11)
  THEN i + 11
  ELSE 0

\* "Login Credentials": (username|login|password)\s*[:=]\s*\S+   (IGNORECASE)
\* the length of the alternative of group 1 that matches at i, 0 if none
LoginKeywordLen(t, i) ==
  IF MatchesAtCI(t, i, <<"u","s","e","r","n","a","m","e">>) THEN 8
  ELSE IF MatchesAtCI(t, i, <<"l","o","g","i","n">>) THEN 5
  ELSE IF MatchesAtCI(t, i, <<"p","a","s","s","w","o","r","d">>) THEN 8
  ELSE 0

LoginMatch(t, i) ==
  LET n == LoginKeywordLen(t, i)
      q == SkipSpaces(t, i + n)
      r == SkipSpaces(t, q + 1)
  IN  IF n = 0 \/ q > Len(t) THEN 0
      ELSE IF t[q] \in {":", "="} /\ r <= Len(t) THEN RunEnd(t, r)
      ELSE 0

\* "Prescription": \b(?:rx|prescription)\s*[:=]?\s*\S+   (IGNORECASE)
PrescriptionTail(t, p) ==
  LET q == SkipSpaces(t, p)
      r == SkipSpaces(t, q + 1)
  IN  IF q > Len(t) THEN 0
      ELSE IF t[q] \in {":", "="} /\ r <= Len(t) THEN RunEnd(t, r)
      ELSE RunEnd(t, q)

PrescriptionMatch(t, i) ==
  IF ~Boundary(t, i) THEN 0
  ELSE IF MatchesAtCI(t, i, <<"r","x">>) /\ PrescriptionTail(t, i + 2) # 0
       THEN PrescriptionTail(t, i + 2)
  ELSE IF MatchesAtCI(t, i, <<"p","r","e","s","c","r","i","p","t","i","o","n">>)
       THEN PrescriptionTail(t, i + 12)
  ELSE 0

\* "Member ID": \bMID[\s:_-]?\d+[A-Z]?\b   (IGNORECASE)
MemberIdMatch(t, i) ==
  IF ~(Boundary(t, i) /\ MatchesAtCI(t, i, <<"M","I","D">>)) THEN 0
  ELSE
    LET s == IF i + 3 <= Len(t)
                /\ (IsSpace(t[i + 3]) \/ t[i + 3] \in {":", "_", "-"})
             THEN i + 4 ELSE i + 3
        d == DigitsEnd(t, s)
    IN  IF d = s THEN 0
        ELSE IF d <= Len(t) /\ IsLetter(t[d]) /\ ~WordAt(t, d + 1) THEN d + 1
        ELSE IF ~WordAt(t, d) THEN d
        ELSE 0

RuleMatch(label, t, i) ==
  CASE label = "SSN" -> SSNMatch(t, i)
    [] label = "Login Credentials" -> LoginMatch(t, i)
    [] label = "Prescription" -> PrescriptionMatch(t, i)
    [] label = "Member ID" -> MemberIdMatch(t, i)
    [] OTHER -> 0

\* the leftmost non-overlapping matches of the rule's pattern from position
\* i on, as spans <<first, last>>
RECURSIVE FindIter(_, _, _)
FindIter(label, t, i) ==
  IF i > Len(t) THEN <<>>
  ELSE LET e == RuleMatch(label, t, i)
       IN  IF e > i
           THEN << <<i, e - 1>> >> \o FindIter(label, t, e)
           ELSE FindIter(label, t, i + 1)

\* what findall gives for a match: group 1 when the pattern has a group,
\* the whole match otherwise; line 86 takes it as it is
MatchStr(label, t, span) ==
  IF label = "Login Credentials"
  THEN SubSeq(t, span[1], span[1] + LoginKeywordLen(t, span[1]) - 1)
  ELSE SubSeq(t, span[1], span[2])

\* the findings of one rule: pattern.findall(text) with the rule's label
FindAll(label, t, i) ==
  LET spans == FindIter(label, t, i)
  IN  [k \in 1..Len(spans) |-> <<label, MatchStr(label, t, spans[k])>>]

\* the findings of the rules k..Len(patterns), in registry order
RECURSIVE RuleFindings(_, _)
RuleFindings(t, k) ==
  IF k > Len(patterns) THEN <<>>
  ELSE FindAll(patterns[k], t, 1) \o RuleFindings(t, k + 1)

(***************************************************************************)
(* SensitiveDataDetector.  loaded is FALSE when spacy.load raised in       *)
(* __init__: then neither self.nlp nor self.patterns was assigned.  ner is *)
(* what the recognizer does for the text: it raises, or it returns spans.  *)
(***************************************************************************)
scan_text(loaded, text, ner) ==
  IF ~loaded THEN <<>>
  ELSE IF ner.raises THEN RuleFindings(text, 1)
  ELSE RuleFindings(text, 1)
         \o [k \in 1..Len(ner.ents) |-> <<"Full Name", ner.ents[k]>>]

Marker == <<"[","R","E","D","A","C","T","E","D","]">>

\* re.sub(re.escape(lit), "[REDACTED]", t, flags=re.IGNORECASE) from position i
RECURSIVE SubAll(_, _, _)
SubAll(t, lit, i) ==
  IF i > Len(t) THEN <<>>
  ELSE IF MatchesAtCI(t, i, lit) THEN Marker \o SubAll(t, lit, i + Len(lit))
  ELSE <<t[i]>> \o SubAll(t, lit, i + 1)

RECURSIVE RedactFrom(_, _, _)
RedactFrom(text, findings, k) ==
  IF k > Len(findings) THEN text
  ELSE IF findings[k][2] # <<>>
       THEN RedactFrom(SubAll(text, findings[k][2], 1), findings, k + 1)
  ELSE RedactFrom(text, findings, k + 1)

redact_text(text, findings) == RedactFrom(text, findings, 1)

\* a redaction written into the ticket it was given (no copy)
scan_and_redact_ticket_inplace(loaded, ticket, ner) ==
  LET content == ticket.description
      matches == IF content # <<>> THEN scan_text(loaded, content, ner) ELSE <<>>
      redacted == [ticket EXCEPT !.description = redact_text(content, matches)]
  IN  IF matches # <<>>
      THEN <<matches, redacted, redacted>>
      ELSE <<matches, ticket, ticket>>

\* <<findings of the description, redacted copy of the ticket, the ticket
\* it was given as it is after the call>>
scan_and_redact_ticket(loaded, ticket, ner) ==
  LET content == ticket.description
      matches == IF content # <<>> THEN scan_text(loaded, content, ner) ELSE <<>>
  IN  IF matches # <<>>
      THEN <<matches,
             [ticket EXCEPT !.description = redact_text(content, matches)],
             ticket>>
      ELSE <<matches, ticket, ticket>>

(***************************************************************************)
(* Tickets handed to the loop of main.  id = 0 stands for a ticket without *)
(* the key "id", update_time = NoTime for one without "update_time" and    *)
(* parent_id = 0 for an absent or empty parent_id.                         *)
(***************************************************************************)
NoTime == 0 - 1

ParentId == 872

DescPlain == <<"E","d"," ","o","k">>

DescSSN == <<"S","S","N"," ","1","2","3","-","4","5","-","6","7","8","9">>

DescRx == <<"r","x"," ","["," ","x","r","x"," ","M","I","D","1">>

DescLogin == <<"p","a","s","s","w","o","r","d",":"," ","p","w","1">>

DescEdRx == <<"E","d"," ","r","x"," ","5">>

\* the descriptions of the tickets handed to main
Descriptions == {DescPlain, DescRx}

NameLexicon == {<<"E","d">>}

Priorities == {"High"}

Times == 1..MaxTime

Stamps == 1..MaxStamp

TicketInputs(i) ==
  [id : {0, i}, title : {"Login failure"}, description : Descriptions,
   priority : Priorities, parent_id : {0, ParentId},
   update_time : {NoTime} \cup Times]

\* lit occurs in t, compared exactly
Occurs(lit, t) ==
  \E i \in 1..Len(t) :
    /\ i + Len(lit) - 1 <= Len(t)
    /\ SubSeq(t, i, i + Len(lit) - 1) = lit

\* what the recognizer can do for a text: raise, find nothing, find a name
NerOutcomes(text) ==
  {[raises |-> TRUE, ents |-> <<>>], [raises |-> FALSE, ents |-> <<>>]}
    \cup {[raises |-> FALSE, ents |-> <<n>>] : n \in {m \in NameLexicon : Occurs(m, text)}}

\* ticket.get("update_time", 0)
UpdateTimeOf(t) == IF t.update_time = NoTime THEN 0 ELSE t.update_time

\* a mapping whose default is the lowest priority
map_priority_default_low(priority) ==
  CASE priority = "High" -> 1
    [] priority = "Medium" -> 2
    [] OTHER -> 3

\* priority_mapping.get(priority, 2)
map_priority(priority) ==
  CASE priority = "High" -> 1
    [] priority = "Medium" -> 2
    [] priority = "Low" -> 3
    [] OTHER -> 2

(***************************************************************************)
(* State.                                                                  *)
(***************************************************************************)
VARIABLES
  items,          \* the remote work items: [ext, changed, relations]
  hrefPrefix,     \* prefix of _links.self.href as the remote reports it;
                  \* "unknown" until a link check has read it
  run,            \* number of runs of main started so far
  processed,      \* number of tickets taken from the batches of all runs
  pc,             \* where main is
  loaded,         \* the detector of this run has its model and patterns
  idx,            \* index in the batch of the ticket being processed
  ticket,         \* the local variable ticket of the loop body
  sysaid_id,
  findings,       \* findings of scan_and_redact_ticket for the description
  existing_bug_id,
  ado_updated_ts,
  created_count,
  updated_count,
  failed_count,
  summary,        \* the run summary has been written
  outcome,        \* outcome of each ticket of the batch in this run
  calls,          \* the calls made for the current ticket, in order
  sent,           \* the payloads sent for the current ticket, in order
  env,            \* what the remote system answered for the current ticket
  before,         \* the counters when the current ticket was taken
  failedLookups,  \* per external id: lookups that failed while an item existed
  log,            \* the log records written for the current ticket, in order
  call,           \* the last direct call of a function, with what it returned
  sysaid          \* SysAid's records, the clock, last_sync.json, the last fetch

vars ==
  <<items, hrefPrefix, run, processed, pc, loaded, idx, ticket, sysaid_id, findings,
    existing_bug_id, ado_updated_ts, created_count, updated_count,
    failed_count, summary, outcome, calls, sent, env, before, failedLookups,
    log, call, sysaid>>

HierarchyReverse == "System.LinkTypes.Hierarchy-Reverse"

\* the URL the client writes for a parent link
ClientParentUrl(parent_id) == [prefix |-> "client", target |-> parent_id]

NoTicket ==
  [id |-> 0, title |-> "", description |-> <<>>, priority |-> "",
   parent_id |-> 0, update_time |-> NoTime]

\* had: the work item held a parent link to the ticket's parent when the
\* update of the current ticket began
NoEnv ==
  [lookup |-> "none", fetch |-> "none", link |-> "none", mut |-> "none",
   had |-> FALSE]

\* the remote work items whose Custom.SysAidID is e
ItemsFor(e) == {b \in DOMAIN items : items[b].ext = e}

\* the work item holds a hierarchy-parent link to parent_id, in any URL form
HasParentLink(bug_id, parent_id) ==
  \E k \in DOMAIN items[bug_id].relations :
    /\ items[bug_id].relations[k].url.target = parent_id
    /\ items[bug_id].relations[k].rel = HierarchyReverse

Counters == <<created_count, updated_count, failed_count>>

NoCall == [fn |-> "none", args |-> <<>>, result |-> <<>>]

\* the records scan_and_redact_ticket and scan_text write: logging.exception
\* of scan_text (line 96) and the warning of lines 145-147, whose message
\* formats the list of (label, literal) pairs
DetectorLog(ld, t, ner) ==
  LET content == t.description
      matches == IF content # <<>> THEN scan_text(ld, content, ner) ELSE <<>>
  IN  (IF content # <<>> /\ (~ld \/ ner.raises)
       THEN <<[level |-> "ERROR", id |-> 0, matches |-> <<>>]>> ELSE <<>>)
        \o (IF matches # <<>>
            THEN <<[level |-> "WARNING", id |-> t.id, matches |-> matches]>>
            ELSE <<>>)

\* main.py lines 42-43: the warning formats the findings themselves
MainLog(id, fnd) ==
  IF fnd # <<>>
  THEN <<[level |-> "WARNING", id |-> id, matches |-> fnd]>>
  ELSE <<>>

\* no record in SysAid yet, no last_sync.json (get_last_sync_time gives 0),
\* no fetch made
NoSync ==
  [records |-> <<>>, now |-> 0, file |-> 0, lastGood |-> 0, owed |-> {},
   complete |-> FALSE, got |-> <<>>]

Init ==
  /\ items = <<>>
  /\ hrefPrefix = "unknown"
  /\ run = 0
  /\ processed = 0
  /\ pc = "idle"
  /\ loaded = TRUE
  /\ idx = 0
  /\ ticket = NoTicket
  /\ sysaid_id = 0
  /\ findings = <<>>
  /\ existing_bug_id = 0
  /\ ado_updated_ts = 0
  /\ created_count = 0
  /\ updated_count = 0
  /\ failed_count = 0
  /\ summary = FALSE
  /\ outcome = [i \in 1..NumTickets |-> "none"]
  /\ calls = <<>>
  /\ sent = <<>>
  /\ env = NoEnv
  /\ before = <<0, 0, 0>>
  /\ failedLookups = [e \in 1..NumTickets |-> 0]
  /\ log = <<>>
  /\ call = NoCall
  /\ sysaid = NoSync

(***************************************************************************)
(* ado_api.py.  The remote system answers a request in one of the ways     *)
(* named by kind: "ok"; "reqerr", a requests.RequestException (transport   *)
(* error or HTTP error status); "badbody", a 2xx answer whose body does    *)
(* not have the expected shape, so that reading it raises another          *)
(* exception.                                                              *)
(***************************************************************************)
\* a query that never matches (e.g. a wrong custom field name)
FoundIdsNone(e) == {0}

\* ids of the work items whose Custom.SysAidID is e; {0} when there is none
FoundIds(e) ==
  LET S == {b \in DOMAIN items : items[b].ext = e}
  IN  IF S = {} THEN {0} ELSE S

LookupResponses(e) ==
  {[kind |-> "ok", first |-> b] : b \in FoundIds(e)}
    \cup {[kind |-> "reqerr", first |-> 0], [kind |-> "badbody", first |-> 0]}

\* a lookup that reads the wrong key of the answer and never finds an id
find_existing_bug_blind(resp) ==
  CASE resp.kind \in {"ok", "reqerr"} -> [raised |-> FALSE, value |-> 0]
    [] OTHER -> [raised |-> TRUE, value |-> 0]

\* the value returned (0 is None), or raised = TRUE when an exception leaves
find_existing_bug(resp) ==
  CASE resp.kind = "ok" -> [raised |-> FALSE, value |-> resp.first]
    [] resp.kind = "reqerr" -> [raised |-> FALSE, value |-> 0]
    [] OTHER -> [raised |-> TRUE, value |-> 0]

\* a failure answered with a time that is not the oldest possible
get_work_item_last_updated_late(bug_id, kind) ==
  IF kind = "ok" THEN items[bug_id].changed ELSE 1

get_work_item_last_updated(bug_id, kind) ==
  IF kind = "ok" THEN items[bug_id].changed ELSE 0

already_linked(bug_id, parent_id, kind, href) ==
  IF kind = "ok"
  THEN \E k \in DOMAIN items[bug_id].relations :
         /\ items[bug_id].relations[k].url
              = [prefix |-> href, target |-> parent_id]
         /\ items[bug_id].relations[k].rel = HierarchyReverse
  ELSE FALSE

ParentLink(parent_id) ==
  [rel |-> HierarchyReverse, url |-> ClientParentUrl(parent_id)]

\* a create that leaves the parent link out
CreatePayloadNoLink(t) ==
  [op |-> "create", title |-> t.title, description |-> t.description,
   sysaid |-> t.id, priority |-> map_priority(t.priority), links |-> <<>>]

\* bug_data of create_ado_bug
CreatePayload(t) ==
  [op |-> "create", title |-> t.title, description |-> t.description,
   sysaid |-> t.id, priority |-> map_priority(t.priority),
   links |-> IF t.parent_id # 0 THEN <<ParentLink(t.parent_id)>> ELSE <<>>]

\* an update that appends the parent link without looking at the check
UpdatePayloadAlwaysLink(t, linked) ==
  [op |-> "update", title |-> t.title, description |-> t.description,
   sysaid |-> 0, priority |-> map_priority(t.priority),
   links |-> IF t.parent_id # 0 THEN <<ParentLink(t.parent_id)>> ELSE <<>>]

\* bug_data of update_ado_bug; linked is the result of already_linked
UpdatePayload(t, linked) ==
  [op |-> "update", title |-> t.title, description |-> t.description,
   sysaid |-> 0, priority |-> map_priority(t.priority),
   links |-> IF t.parent_id # 0 /\ ~linked
             THEN <<ParentLink(t.parent_id)>> ELSE <<>>]

\* the remote system carries out a create or an update request
RemoteCreate(payload, stamp) ==
  Append(items, [ext |-> payload.sysaid, changed |-> stamp,
                 relations |-> payload.links])

RemoteUpdate(bug_id, payload, stamp) ==
  [items EXCEPT ![bug_id] =
     [@ EXCEPT !.changed = stamp, !.relations = @ \o payload.links]]

(***************************************************************************)
(* main.py                                                                 *)
(***************************************************************************)
\* an except branch that forgets the counter
ExceptHandlerUncounted ==
  /\ UNCHANGED <<created_count, updated_count, failed_count>>
  /\ outcome' = [outcome EXCEPT ![idx] = "Failed"]
  /\ pc' = "loop"

\* lines 60-62: the except branch of the loop body
ExceptHandler ==
  /\ failed_count' = failed_count + 1
  /\ UNCHANGED <<created_count, updated_count>>
  /\ outcome' = [outcome EXCEPT ![idx] = "Failed"]
  /\ pc' = "loop"

\* a comparison that also updates on equal times
NeedsUpdateOnEqual(t, ts) == UpdateTimeOf(t) >= ts

\* line 49
NeedsUpdate(t, ts) == UpdateTimeOf(t) > ts

\* a create that is counted as an update
CreatedAsUpdated ==
  /\ updated_count' = updated_count + 1
  /\ UNCHANGED <<created_count, failed_count>>
  /\ outcome' = [outcome EXCEPT ![idx] = "Created"]
  /\ pc' = "loop"

\* lines 57-58
Created ==
  /\ created_count' = created_count + 1
  /\ UNCHANGED <<updated_count, failed_count>>
  /\ outcome' = [outcome EXCEPT ![idx] = "Created"]
  /\ pc' = "loop"

\* lines 51-52
Updated ==
  /\ updated_count' = updated_count + 1
  /\ UNCHANGED <<created_count, failed_count>>
  /\ outcome' = [outcome EXCEPT ![idx] = "Updated"]
  /\ pc' = "loop"

\* lines 17-33
StartRun ==
  /\ pc \in {"idle", "crashed"}
  /\ processed < MaxProcessed
  /\ run' = run + 1
  /\ loaded' \in BOOLEAN
  /\ created_count' = 0
  /\ updated_count' = 0
  /\ failed_count' = 0
  /\ idx' = 0
  /\ summary' = FALSE
  /\ outcome' = [i \in 1..NumTickets |-> "none"]
  /\ ticket' = NoTicket
  /\ sysaid_id' = 0
  /\ findings' = <<>>
  /\ existing_bug_id' = 0
  /\ ado_updated_ts' = 0
  /\ calls' = <<>>
  /\ sent' = <<>>
  /\ env' = NoEnv
  /\ before' = <<0, 0, 0>>
  /\ log' = <<>>
  /\ pc' = "loop"
  /\ UNCHANGED <<items, hrefPrefix, processed, failedLookups, call, sysaid>>

\* lines 36-37: the next ticket of the batch; ticket["id"] is outside the try
NextTicket ==
  /\ pc = "loop"
  /\ idx < NumTickets
  /\ processed < MaxProcessed
  /\ processed' = processed + 1
  /\ \E t \in TicketInputs(idx + 1) :
       /\ ticket' = t
       /\ sysaid_id' = t.id
       /\ pc' = IF t.id = 0 THEN "crashed" ELSE "redact"
  /\ idx' = idx + 1
  /\ findings' = <<>>
  /\ existing_bug_id' = 0
  /\ ado_updated_ts' = 0
  /\ calls' = <<>>
  /\ sent' = <<>>
  /\ env' = NoEnv
  /\ before' = Counters
  /\ log' = <<>>
  /\ UNCHANGED <<items, hrefPrefix, run, loaded, created_count, updated_count,
                 failed_count, summary, outcome, failedLookups, call, sysaid>>

\* lines 41-43
Redact ==
  /\ pc = "redact"
  /\ \E ner \in NerOutcomes(ticket.description) :
       LET r == scan_and_redact_ticket(loaded, ticket, ner)
       IN  /\ findings' = r[1]
           /\ ticket' = r[2]
           /\ log' = DetectorLog(loaded, ticket, ner) \o MainLog(sysaid_id, r[1])
  /\ calls' = Append(calls, "scan")
  /\ pc' = "lookup"
  /\ UNCHANGED <<items, hrefPrefix, run, processed, loaded, idx, sysaid_id,
                 existing_bug_id, ado_updated_ts, created_count, updated_count,
                 failed_count, summary, outcome, sent, env, before,
                 failedLookups, call, sysaid>>

\* line 45 and the test of line 47
Lookup ==
  /\ pc = "lookup"
  /\ \E resp \in LookupResponses(sysaid_id) :
       LET r == find_existing_bug(resp)
       IN  /\ env' = [env EXCEPT !.lookup =
                        IF resp.kind = "ok"
                        THEN (IF resp.first = 0 THEN "notfound" ELSE "found")
                        ELSE resp.kind]
           /\ failedLookups' =
                IF resp.kind = "reqerr" /\ ItemsFor(sysaid_id) # {}
                THEN [failedLookups EXCEPT ![sysaid_id] = @ + 1]
                ELSE failedLookups
           /\ IF r.raised
              THEN /\ ExceptHandler
                   /\ UNCHANGED existing_bug_id
              ELSE /\ existing_bug_id' = r.value
                   /\ pc' = IF r.value # 0 THEN "decide" ELSE "create"
                   /\ UNCHANGED <<created_count, updated_count, failed_count,
                                  outcome>>
  /\ calls' = Append(calls, "find")
  /\ UNCHANGED <<items, hrefPrefix, run, processed, loaded, idx, ticket, sysaid_id,
                 findings, ado_updated_ts, summary, sent, before, log, call,
                 sysaid>>

\* lines 48-49 and 53-54
Decide ==
  /\ pc = "decide"
  /\ \E kind \in {"ok", "err"} :
       LET ts == get_work_item_last_updated(existing_bug_id, kind)
       IN  /\ ado_updated_ts' = ts
           /\ env' = [env EXCEPT !.fetch = kind]
           /\ IF NeedsUpdate(ticket, ts)
              THEN /\ pc' = "update"
                   /\ UNCHANGED outcome
              ELSE /\ pc' = "loop"
                   /\ outcome' = [outcome EXCEPT ![idx] = "Skipped"]
  /\ calls' = Append(calls, "last_updated")
  /\ UNCHANGED <<items, hrefPrefix, run, processed, loaded, idx, ticket, sysaid_id,
                 findings, existing_bug_id, created_count, updated_count,
                 failed_count, summary, sent, before, failedLookups, log,
                 call, sysaid>>

\* A create or update request ends in one of three ways (mut): "ok", the
\* remote system carried it out and the lines up to the counter ran;
\* "rejected", it did not carry it out and the call raised; "lost", it
\* carried it out and an exception was raised before the counter was
\* reached (the answer did not arrive or could not be read, new_bug["id"]
\* or the print of log_action raised).
\* lines 50-52
Update ==
  /\ pc = "update"
  /\ \E lk \in (IF ticket.parent_id # 0 THEN {"ok", "err"} ELSE {"none"}),
        mut \in {"ok", "rejected", "lost"}, stamp \in Stamps,
        href \in (IF hrefPrefix = "unknown" /\ ticket.parent_id # 0
                  THEN {"client", "server"} ELSE {hrefPrefix}) :
       LET linked == already_linked(existing_bug_id, ticket.parent_id, lk, href)
           payload == UpdatePayload(ticket, linked)
       IN  /\ env' = [env EXCEPT !.link = IF lk = "ok" /\ linked THEN "linked"
                                          ELSE IF lk = "ok" THEN "unlinked"
                                          ELSE lk,
                                 !.mut = mut,
                                 !.had = ticket.parent_id # 0
                                         /\ HasParentLink(existing_bug_id,
                                                          ticket.parent_id)]
           /\ calls' = calls
                \o (IF lk = "none" THEN <<>> ELSE <<"already_linked">>)
                \o <<"update">>
           /\ hrefPrefix' = IF lk = "ok" THEN href ELSE hrefPrefix
           /\ sent' = Append(sent, payload)
           /\ items' = IF mut = "rejected" THEN items
                       ELSE RemoteUpdate(existing_bug_id, payload, stamp)
           /\ IF mut = "ok" THEN Updated ELSE ExceptHandler
  /\ UNCHANGED <<run, processed, loaded, idx, ticket, sysaid_id, findings,
                 existing_bug_id, ado_updated_ts, summary, before,
                 failedLookups, log, call, sysaid>>

\* lines 56-58
Create ==
  /\ pc = "create"
  /\ \E mut \in {"ok", "rejected", "lost"}, stamp \in Stamps :
       LET payload == CreatePayload(ticket)
       IN  /\ env' = [env EXCEPT !.mut = mut]
           /\ sent' = Append(sent, payload)
           /\ items' = IF mut = "rejected" THEN items
                       ELSE RemoteCreate(payload, stamp)
           /\ IF mut = "ok" THEN Created ELSE ExceptHandler
  /\ calls' = Append(calls, "create")
  /\ UNCHANGED <<hrefPrefix, run, processed, loaded, idx, ticket, sysaid_id, findings,
                 existing_bug_id, ado_updated_ts, summary, before,
                 failedLookups, log, call, sysaid>>

\* lines 64-68
Summary ==
  /\ pc = "loop"
  /\ idx = NumTickets
  /\ summary' = TRUE
  /\ pc' = "idle"
  /\ UNCHANGED <<items, hrefPrefix, run, processed, loaded, idx, ticket, sysaid_id,
                 findings, existing_bug_id, ado_updated_ts, created_count,
                 updated_count, failed_count, outcome, calls, sent, env,
                 before, failedLookups, log, call, sysaid>>

Next ==
  \/ StartRun
  \/ NextTicket
  \/ Redact
  \/ Lookup
  \/ Decide
  \/ Update
  \/ Create
  \/ Summary

Spec == Init /\ [][Next]_vars

(***************************************************************************)
(* Remote systems that may never answer.  Every request of ado_api.py is   *)
(* made without timeout= (lines 59, 72, 112, 131, 166), and requests then  *)
(* waits for the answer without limit: the call neither returns nor        *)
(* raises.  The program is sequential and keeps running, which is weak     *)
(* fairness of its steps.                                                  *)
(***************************************************************************)
RemoteCallSites == {"lookup", "decide", "update", "create"}

\* the request of the current step gets no answer
Block ==
  /\ pc \in RemoteCallSites
  /\ pc' = "blocked"
  /\ UNCHANGED <<items, hrefPrefix, run, processed, loaded, idx, ticket,
                 sysaid_id, findings, existing_bug_id, ado_updated_ts,
                 created_count, updated_count, failed_count, summary, outcome,
                 calls, sent, env, before, failedLookups, log, call, sysaid>>

NextBlocking ==
  \/ Next
  \/ Block

\* every step of the program that can be taken is taken; the redaction is
\* a local computation that always ends, stated on the position of main
Fairness ==
  /\ WF_vars(StartRun)
  /\ WF_vars(NextTicket)
  /\ []<>(pc # "redact")
  /\ WF_vars(Lookup)
  /\ WF_vars(Decide)
  /\ WF_vars(Update)
  /\ WF_vars(Create)
  /\ WF_vars(Summary)

LiveSpec == Init /\ [][NextBlocking]_vars /\ Fairness /\ WF_vars(Block)

(***************************************************************************)
(* Direct calls of the functions of sensitive_data_detector.py and of      *)
(* map_priority, on sample inputs: call holds the function, its arguments  *)
(* and what it returned.                                                   *)
(***************************************************************************)
mainVars ==
  <<items, hrefPrefix, run, processed, pc, loaded, idx, ticket, sysaid_id, findings,
    existing_bug_id, ado_updated_ts, created_count, updated_count,
    failed_count, summary, outcome, calls, sent, env, before, failedLookups,
    log>>

Texts == {<<>>, DescPlain, DescSSN, DescRx, DescLogin, DescEdRx}

\* the findings scan_text reports for the sample texts, and a finding with
\* an empty literal (findall gives '' for a group that took no part in the
\* match, e.g. the optional group of "Billing Info")
FindingPool ==
  UNION {Range(scan_text(TRUE, t, ner)) : <<t, ner>> \in
           {<<t, ner>> \in Texts \X UNION {NerOutcomes(u) : u \in Texts} :
              ner \in NerOutcomes(t)}}
    \cup {<<"Billing Info", <<>>>>}

FindingLists == UNION {[1..n -> FindingPool] : n \in 0..MaxFindings}

\* scan_text(text) on a detector whose construction succeeded (ld) or not
CallScanText ==
  /\ call = NoCall
  /\ \E ld \in BOOLEAN, text \in Texts :
       \E ner \in NerOutcomes(text) :
         call' = [fn |-> "scan_text", args |-> <<ld, text, ner>>,
                  result |-> scan_text(ld, text, ner)]
  /\ UNCHANGED <<mainVars, sysaid>>

\* redact_text(text, findings)
CallRedactText ==
  /\ call = NoCall
  /\ \E text \in Texts, fs \in FindingLists :
       call' = [fn |-> "redact_text", args |-> <<text, fs>>,
                result |-> redact_text(text, fs)]
  /\ UNCHANGED <<mainVars, sysaid>>

CallTickets ==
  [id : {0, 1}, title : {"Login failure"}, description : Texts,
   priority : Priorities, parent_id : {0, ParentId},
   update_time : {NoTime} \cup Times]

\* scan_and_redact_ticket(ticket)
CallScanAndRedactTicket ==
  /\ call = NoCall
  /\ \E ld \in BOOLEAN, t \in CallTickets :
       \E ner \in NerOutcomes(t.description) :
         call' = [fn |-> "scan_and_redact_ticket", args |-> <<ld, t, ner>>,
                  result |-> scan_and_redact_ticket(ld, t, ner)]
  /\ UNCHANGED <<mainVars, sysaid>>

\* Python's None; like every string but the three keys, it is not a key of
\* priority_mapping
None == "None"

PriorityInputs == {"High", "Medium", "Low", "", None, "Unknown", "high"}

\* map_priority(priority)
CallMapPriority ==
  /\ call = NoCall
  /\ \E p \in PriorityInputs :
       call' = [fn |-> "map_priority", args |-> <<p>>,
                result |-> map_priority(p)]
  /\ UNCHANGED <<mainVars, sysaid>>

\* the caller is done with the returned value
Return ==
  /\ call # NoCall
  /\ call' = NoCall
  /\ UNCHANGED <<mainVars, sysaid>>

NextCall ==
  \/ CallScanText
  \/ CallRedactText
  \/ CallScanAndRedactTicket
  \/ CallMapPriority
  \/ Return

CallSpec == Init /\ [][NextCall]_vars

(***************************************************************************)
(* sysaid_api.py, the incremental fetch.  sysaid.records are the service   *)
(* records SysAid holds, in the order the API lists them; sysaid.now is    *)
(* the clock in milliseconds; sysaid.file is the last_sync_time persisted  *)
(* in last_sync.json.  Of the last fetch the model keeps what it returned  *)
(* (got), whether every request of it succeeded (complete) and the ids of  *)
(* the records inserted or updated since the last complete fetch before it *)
(* (owed); lastGood is the current_time of the last complete fetch.        *)
(***************************************************************************)
MaxClock == 3
MaxRecords == 2

\* the "limit" parameter of the request (100 in the code): records per page
PageSize == 1

\* a record is inserted into SysAid, or an existing one is updated, at a
\* time after every time seen so far
RecordChanged ==
  /\ sysaid.now < MaxClock
  /\ LET t == sysaid.now + 1 IN
       \/ /\ Len(sysaid.records) < MaxRecords
          /\ sysaid' = [sysaid EXCEPT
               !.now = t,
               !.records = Append(@, [id |-> Len(@) + 1, insert_time |-> t,
                                      update_time |-> t])]
       \/ \E k \in 1..Len(sysaid.records) :
            sysaid' = [sysaid EXCEPT !.now = t,
                                     !.records[k].update_time = t]
  /\ UNCHANGED <<mainVars, call>>

get_last_sync_time == sysaid.file

\* the requests a fetch makes when none fails: one per page that holds
\* records and one more, whose empty answer ends the loop
NRequests(records) == (Len(records) + PageSize - 1) \div PageSize + 1

\* the records of the pages answered before request failAt failed
\* (failAt = 0: no request failed)
PagesRead(records, failAt) ==
  IF failAt = 0 \/ (failAt - 1) * PageSize >= Len(records)
  THEN records
  ELSE SubSeq(records, 1, (failAt - 1) * PageSize)

Changed(record, last_sync_time) ==
  \/ record.insert_time > last_sync_time
  \/ record.update_time > last_sync_time

\* update_last_sync_time(timestamp): the content of last_sync.json after it
update_last_sync_time(timestamp) == timestamp

\* fetch_updated_service_records(): request failAt raises RequestException
\* (0: none does); the loop is left by break, and the timestamp is written
fetch_updated_service_records ==
  /\ \E failAt \in 0..NRequests(sysaid.records) :
       LET last_sync_time == get_last_sync_time
           current_time == sysaid.now
           read == PagesRead(sysaid.records, failAt)
           all_records ==
             SelectSeq(read, LAMBDA r : Changed(r, last_sync_time))
       IN sysaid' = [sysaid EXCEPT
            !.got = all_records,
            !.complete = (failAt = 0),
            !.owed = {sysaid.records[k].id : k \in
                        {j \in 1..Len(sysaid.records) :
                           Changed(sysaid.records[j], sysaid.lastGood)}},
            !.lastGood = IF failAt = 0 THEN current_time ELSE @,
            !.file = update_last_sync_time(current_time)]
  /\ UNCHANGED <<mainVars, call>>

NextFetch ==
  \/ RecordChanged
  \/ fetch_updated_service_records

FetchSpec == Init /\ [][NextFetch]_vars

(***************************************************************************)
(* Properties.                                                             *)
(***************************************************************************)
\* the current ticket has reached its outcome
TicketDone == pc \in {"loop", "idle"} /\ idx >= 1

NCalls(op) == Cardinality({k \in DOMAIN calls : calls[k] = op})

NMutations == NCalls("create") + NCalls("update")

NOutcome(o) == Cardinality({i \in 1..NumTickets : outcome[i] = o})

\* lit occurs in t, compared case-insensitively
OccursCI(lit, t) == \E i \in 1..Len(t) : MatchesAtCI(t, i, lit)

\* C1 as stated: whatever remote calls fail, the remote system never holds
\* more than one work item with the same external id.
C1_AtMostOneItemPerId ==
  \A e \in 1..NumTickets : Cardinality(ItemsFor(e)) <= 1

\* C1 amended: create_ado_bug is called for an external id that already
\* has a remote item only after the lookup for it failed with a request
\* error; the remote system holds at most one work item per external id
\* plus one for each such failed lookup.
C1_AtMostOneItemUnlessLookupFailed ==
  /\ \A e \in 1..NumTickets :
       Cardinality(ItemsFor(e)) <= 1 + failedLookups[e]
  /\ pc = "create" => ItemsFor(sysaid_id) = {} \/ env.lookup = "reqerr"

\* C1 witness: a later run found the item of an earlier run instead of
\* creating a second one
C1_Witness ==
  /\ run = 2
  /\ TicketDone
  /\ env.lookup = "found"
  /\ Cardinality(ItemsFor(sysaid_id)) = 1
  /\ failedLookups[sysaid_id] = 0

\* C2 as stated: every ticket of the batch reaches exactly one outcome in
\* a run, each ticket increments at most one counter, and
\* created_count + updated_count + failed_count never exceeds the number
\* of tickets processed.
C2_ExactlyOneOutcomePerTicket ==
  /\ created_count + updated_count + failed_count <= idx
  /\ created_count = NOutcome("Created")
  /\ updated_count = NOutcome("Updated")
  /\ failed_count = NOutcome("Failed")
  /\ \A i \in 1..NumTickets : i > idx => outcome[i] = "none"
  /\ (run >= 1 /\ pc \in {"idle", "crashed"})
       => \A i \in 1..NumTickets : outcome[i] # "none"

C4_SkipUnlessNewer ==
  (env.lookup = "found" /\ env.fetch = "ok")
    => /\ sent = <<>> => ado_updated_ts = items[existing_bug_id].changed
       /\ IF UpdateTimeOf(ticket) <= ado_updated_ts
          THEN /\ TicketDone
               /\ outcome[idx] = "Skipped"
               /\ NMutations = 0
               /\ sent = <<>>
               /\ Counters = before
          ELSE /\ pc = "update" \/ NCalls("update") = 1
               /\ outcome[idx] # "Skipped"

C4_Witness ==
  /\ TicketDone
  /\ env.lookup = "found"
  /\ env.fetch = "ok"
  /\ ticket.update_time # NoTime
  /\ ticket.update_time <= items[existing_bug_id].changed
  /\ outcome[idx] = "Skipped"

C6_LookupFailureIsNotFound ==
  (TicketDone /\ env.lookup \in {"reqerr", "badbody"})
    => /\ NCalls("create") = 1
       /\ env.mut = "ok" => outcome[idx] = "Created"

\* C7 as stated: when the fetch of the remote last-modified time fails,
\* the remote time is 0 and the ticket is updated, never Skipped.
C7_FetchFailureUpdates ==
  (TicketDone /\ env.fetch = "err")
    => /\ ado_updated_ts = 0
       /\ NCalls("update") = 1
       /\ outcome[idx] # "Skipped"

\* C7 amended: when the fetch fails the remote time is 0; the ticket goes
\* to the update (one update_ado_bug call) when its update_time is greater
\* than 0, and is Skipped when its update_time is absent or 0.
C7_FetchFailureUpdatesPositiveTime ==
  env.fetch = "err"
    => /\ ado_updated_ts = 0
       /\ IF UpdateTimeOf(ticket) > 0
          THEN /\ pc = "update" \/ NCalls("update") = 1
               /\ outcome[idx] # "Skipped"
          ELSE /\ TicketDone
               /\ outcome[idx] = "Skipped"
               /\ NMutations = 0

C7_Witness ==
  /\ TicketDone
  /\ env.lookup = "found"
  /\ env.fetch = "err"
  /\ UpdateTimeOf(ticket) <= items[existing_bug_id].changed
  /\ NCalls("update") = 1
  /\ env.mut = "ok"
  /\ outcome[idx] = "Updated"

\* C8 as stated: no exception leaves the run loop; every ticket of the
\* batch is processed and the run summary is written at the end.
C8_NoExceptionLeavesLoop ==
  /\ pc # "crashed"
  /\ (run >= 1 /\ pc = "idle")
       => summary /\ \A i \in 1..NumTickets : outcome[i] # "none"

\* C9: a failed create or update call makes the ticket Failed, adds one to
\* failed_count and nothing to the other counters, and a ticket gets at
\* most one create or update call in a run.
C9_FailedMutationNotRetried ==
  /\ NMutations <= 1
  /\ Len(sent) = NMutations
  /\ (TicketDone /\ env.mut \in {"rejected", "lost"})
       => /\ outcome[idx] = "Failed"
          /\ NMutations = 1
          /\ Counters = <<before[1], before[2], before[3] + 1>>

C9_Witness ==
  /\ TicketDone
  /\ env.mut = "rejected"
  /\ NMutations = 1
  /\ failed_count = before[3] + 1

\* C10 as stated: scan_and_redact_ticket runs before any remote call of
\* the ticket, the description of every payload is the redacted
\* description, and no literal reported as a finding occurs in a payload.
C10_PayloadIsRedacted ==
  /\ calls # <<>> => calls[1] = "scan" /\ NCalls("scan") = 1
  /\ \A k \in DOMAIN sent :
       /\ sent[k].description = ticket.description
       /\ \A f \in DOMAIN findings :
            findings[f][2] # <<>>
              => ~Occurs(findings[f][2], sent[k].description)

\* C11 as stated: no log record written at warning level or above holds
\* the literal of a finding; the records carry the category labels and the
\* ticket identifier only.
C11_NoLiteralInWarningLog ==
  \A k \in DOMAIN log :
    log[k].level \in {"WARNING", "ERROR", "CRITICAL"}
      => \A f \in DOMAIN log[k].matches : log[k].matches[f][2] = <<>>

\* C12 as stated: when the name recognizer fails, because its model could
\* not be loaded at construction or because it raises on the text,
\* scan_text still returns every finding of the rule patterns for the text.
C12_RuleFindingsSurviveRecognizerFailure ==
  (call.fn = "scan_text" /\ (~call.args[1] \/ call.args[3].raises))
    => call.result = RuleFindings(call.args[2], 1)

\* C13 as stated: for every text and every list of findings, the result of
\* redact_text holds no case-insensitive occurrence of a non-empty literal
\* of the list.
C13_NoLiteralLeft ==
  call.fn = "redact_text"
    => \A f \in DOMAIN call.args[2] :
         call.args[2][f][2] # <<>>
           => ~OccursCI(call.args[2][f][2], call.result)

\* C14 as stated: for every rule and every match of the rule's pattern in
\* the text, scan_text (on a detector that has its patterns) yields a
\* finding with the rule's label whose literal is the whole non-empty
\* substring the pattern matched, not a capture group of it.
C14_WholeMatchReported ==
  (call.fn = "scan_text" /\ call.args[1])
    => \A k \in DOMAIN patterns :
         LET spans == FindIter(patterns[k], call.args[2], 1)
         IN  \A j \in DOMAIN spans :
               LET whole == SubSeq(call.args[2], spans[j][1], spans[j][2])
               IN  /\ whole # <<>>
                   /\ \E f \in DOMAIN call.result :
                        call.result[f] = <<patterns[k], whole>>

\* C15 as stated: for every text and findings list, redacting the result
\* of redact_text again with the same findings gives the same result.
C15_RedactIdempotent ==
  call.fn = "redact_text"
    => redact_text(call.result, call.args[2]) = call.result

\* the positions of t where the non-empty literal lit occurs
OccurrencesCI(lit, t) ==
  IF lit = <<>> THEN {} ELSE {i \in 1..Len(t) : MatchesAtCI(t, i, lit)}

\* an occurrence of a and an occurrence of b share a position of t
Overlap(t, a, b) ==
  \E i \in OccurrencesCI(a, t), j \in OccurrencesCI(b, t) :
    i <= j + Len(b) - 1 /\ j <= i + Len(a) - 1

NonOverlapping(t, fs) ==
  \A j, k \in DOMAIN fs : j < k => ~Overlap(t, fs[j][2], fs[k][2])

Permuted(fs) ==
  {[k \in DOMAIN fs |-> fs[p[k]]] : p \in Permutations(DOMAIN fs)}

\* C16 as stated: for every text and every findings list whose literals do
\* not overlap one another in the text, redact_text returns the same result
\* for every permutation of the list.
C16_OrderIndependent ==
  (call.fn = "redact_text" /\ NonOverlapping(call.args[1], call.args[2]))
    => \A q \in Permuted(call.args[2]) :
         redact_text(call.args[1], q) = call.result

\* C17: scan_and_redact_ticket leaves the ticket it was given unchanged;
\* the returned ticket has the same fields and equals the given one on
\* every field but "description"; when the description has no finding the
\* returned findings are empty and the returned ticket equals the given one.
C17_InputKeptOtherFieldsPreserved ==
  call.fn = "scan_and_redact_ticket"
    => LET ld == call.args[1]
           t == call.args[2]
           ner == call.args[3]
           r == call.result
       IN  /\ r[3] = t
           /\ DOMAIN r[2] = DOMAIN t
           /\ \A field \in DOMAIN t \ {"description"} : r[2][field] = t[field]
           /\ (t.description = <<>> \/ scan_text(ld, t.description, ner) = <<>>)
                => r[1] = <<>> /\ r[2] = t

C17_Witness ==
  /\ call.fn = "scan_and_redact_ticket"
  /\ call.result[1] # <<>>
  /\ call.result[2].description # call.args[2].description
  /\ call.result[2].title = call.args[2].title
  /\ call.result[3] = call.args[2]

\* C18 as stated: no remote call blocks for ever; a request that gets no
\* answer ends as a failure of its call, so the ticket that has reached a
\* lookup, last-modified fetch, link check, create or update eventually
\* reaches its outcome.
C18_RemoteCallsEnd == [](pc \in RemoteCallSites => <>TicketDone)

\* C19: map_priority returns a value for every input: 1 for "High", 2 for
\* "Medium", 3 for "Low" and 2 for every other input, among them the empty
\* string, None and "Unknown".
C19_MapPriorityTotal ==
  call.fn = "map_priority"
    => /\ call.result \in {1, 2, 3}
       /\ call.args[1] = "High" => call.result = 1
       /\ call.args[1] = "Medium" => call.result = 2
       /\ call.args[1] = "Low" => call.result = 3
       /\ call.args[1] \notin {"High", "Medium", "Low"} => call.result = 2

C19_Witness ==
  /\ call.fn = "map_priority"
  /\ call.args[1] = None
  /\ call.result = 2

\* C20: the payload of a create or update request holds exactly one
\* hierarchy-parent link operation, to ticket.parent_id, when the ticket
\* has a parent_id and the request is a create or an update whose link
\* check returned false or failed; otherwise it holds no link operation.
C20_ParentLinkInPayload ==
  \A k \in DOMAIN sent :
    IF /\ ticket.parent_id # 0
       /\ (sent[k].op = "create" \/ env.link \in {"unlinked", "err"})
    THEN /\ Len(sent[k].links) = 1
         /\ sent[k].links[1].rel = HierarchyReverse
         /\ sent[k].links[1].url = ClientParentUrl(ticket.parent_id)
    ELSE sent[k].links = <<>>

C20_Witness ==
  /\ TicketDone
  /\ ticket.parent_id = ParentId
  /\ env.link = "err"
  /\ Len(sent) = 1
  /\ sent[1].op = "update"
  /\ Len(sent[1].links) = 1
  /\ sent[1].links[1].url.target = ParentId

\* the number of hierarchy-parent links to parent_id the work item holds
NParentLinks(its, bug_id, parent_id) ==
  Cardinality({k \in DOMAIN its[bug_id].relations :
                 /\ its[bug_id].relations[k].url.target = parent_id
                 /\ its[bug_id].relations[k].rel = HierarchyReverse})

\* C21 as stated: a create leaves the new work item with at most one
\* parent link, and an update whose link check succeeded never adds a
\* parent link to a work item that already holds one to the same parent:
\* the link written earlier is the one already_linked recognises.
C21_AtMostOneParentLink ==
  [][/\ pc = "create" /\ Len(items') > Len(items)
          => Len(items'[Len(items')].relations) <= 1
     /\ (pc = "update" /\ env'.link \in {"linked", "unlinked"}
          /\ NParentLinks(items, existing_bug_id, ticket.parent_id) >= 1)
          => NParentLinks(items', existing_bug_id, ticket.parent_id)
               = NParentLinks(items, existing_bug_id, ticket.parent_id)]_vars

\* the ticket was synchronised before and has not changed since: the
\* remote system holds a work item for its id, and every such work item
\* has a last-modified time that is not earlier than the ticket's
\* update_time
Settled ==
  /\ ItemsFor(sysaid_id) # {}
  /\ \A b \in ItemsFor(sysaid_id) : items[b].changed >= UpdateTimeOf(ticket)

\* no remote call made for the current ticket so far has failed
NoRemoteFailure ==
  /\ env.lookup \notin {"reqerr", "badbody"}
  /\ env.fetch # "err"
  /\ env.link # "err"
  /\ env.mut \notin {"rejected", "lost"}

\* C22: a ticket that was synchronised before and has not changed since
\* (as every ticket of a second run over an unchanged batch, when the
\* first run completed and the remote stamps are not earlier than the
\* update times) gets, when no remote call fails, no create call and no
\* update call, and its outcome is Skipped.
C22_RerunSkips ==
  /\ (pc \in {"create", "update"} /\ NoRemoteFailure) => ~Settled
  /\ (TicketDone /\ NoRemoteFailure /\ Settled /\ sent = <<>>)
       => /\ outcome[idx] = "Skipped"
          /\ NMutations = 0
          /\ Counters = before

C22_Witness ==
  /\ run = 2
  /\ \A e \in 1..NumTickets : Cardinality(ItemsFor(e)) = 1
  /\ TicketDone
  /\ env.lookup = "found"
  /\ env.fetch = "ok"
  /\ ticket.update_time # NoTime
  /\ Settled
  /\ sent = <<>>
  /\ outcome[idx] = "Skipped"

\* C23 as stated: the persisted last-sync timestamp is the time of the last
\* fetch every request of which succeeded, and a fetch every request of
\* which succeeded returns every record inserted or updated since the
\* previous such fetch, also when a fetch in between broke off on a request
\* error.
C23_LastSyncIsLastSuccess ==
  /\ sysaid.file = sysaid.lastGood
  /\ sysaid.complete =>
       sysaid.owed \subseteq {sysaid.got[k].id : k \in DOMAIN sysaid.got}

\* the remote system carried out the create or update request of the
\* current ticket
RemoteApplied == env.mut \in {"ok", "lost"}

\* C24 as stated: the counters reflect the remote effects of the run: a
\* ticket whose create or update request was carried out is not counted as
\* failed, and it adds one to created_count when the request was a create
\* and one to updated_count when it was an update (the counters of a run are
\* the sums of what its tickets add).
C24_CountersReflectRemoteEffects ==
  (TicketDone /\ RemoteApplied)
    => /\ outcome[idx] # "Failed"
       /\ failed_count = before[3]
       /\ NCalls("create") = 1 => created_count = before[1] + 1
       /\ NCalls("update") = 1 => updated_count = before[2] + 1

=============================================================================
